---- MODULE Spec2Model ----
(***************************************************************************)
(* Model of the tablet server's schema registry and plan cache             *)
(* (vt/tabletserver/schema_info.go) and of the result-set writer            *)
(* (proxy/conn_resultset.go).                                               *)
(***************************************************************************)
EXTENDS Integers, Sequences, FiniteSets, TLC

(***************************************************************************)
(* Bounds of the model.                                                    *)
(***************************************************************************)
\* number of row caches NewRowCache may construct in one run
MaxCaches == 2
\* number of goroutines calling AddStats on the one ExecPlan, and of
\* goroutines calling Exec and CreateOrUpdateTable on the connection pool
NumCallers == 2
\* longest Fields and RowDatas of a Resultset, most rows of buildResultset
MaxFields == 2
MaxRows == 2
\* number of workers looking plans up and inserting them
NumWorkers == 2
\* number of TableInfo objects CreateOrUpdateTable may construct in one run
MaxInfos == 2
\* number of Stats() calls the reader makes one after the other
MaxStatsCalls == 2

(***************************************************************************)
(* Program constants and small input sets.                                 *)
(***************************************************************************)
\* cache.NewLRUCache(128 * 1024 * 1024)
DefaultQueryCacheSize == 134217728
\* a nil *RowCache; constructed caches are numbered from 1
nilCache == 0

\* schema.CACHE_NONE, schema.CACHE_RW, schema.CACHE_W
CACHE_NONE == "NONE"
CACHE_RW == "RW"
CACHE_W == "W"

TableNames == {"a", "b"}
Sqls == {"q1", "q2"}
CacheSizes == {-1, 0, 1, 2}

\* A SchemaOverride: PKColumns is "nil" (no list), "good" (columns of the
\* table) or "bad" (a column SetPK rejects); Cache is <<>> for a nil
\* *OverrideCacheDesc and <<desc>> otherwise.
Rule(n, pk, c) == [Name |-> n, PKColumns |-> pk, Cache |-> c]
Desc(t, tab) == <<[Type |-> t, Table |-> tab]>>

RuleSet ==
  { Rule("a", "nil", Desc("RW", "")),
    Rule("b", "good", Desc("W", "a")),
    Rule("b", "nil", <<>>),
    Rule("b", "bad", Desc("RW", "")),
    Rule("a", "nil", Desc("W", "")),
    Rule("b", "nil", Desc("X", "")),
    Rule("a", "good", Desc("W", "b")) }

\* the override lists handed to NewSchemaInfo: at most one rule per table,
\* in either order
OverrideLists ==
  { ovs \in UNION { [1..n -> RuleSet] : n \in 0..Cardinality(TableNames) } :
      \A i, j \in 1..Len(ovs) : ovs[i].Name = ovs[j].Name => i = j }

VARIABLES
  constructed,   \* NewSchemaInfo has returned
  closed,        \* Close has run
  fatal,         \* log.Fatal / log.Fatalf ended the process
  tables,        \* si.tables: table name -> TableInfo
  overrides,     \* si.overrides
  queries,       \* si.queries: keys of the LRU, most recently used first
  capacity,      \* si.queries capacity
  poolClosed,    \* si.cachePool.IsClosed()
  nextCache,     \* number of row caches constructed so far
  last,          \* the operation that produced this state
  \* one ExecPlan and the goroutines calling AddStats and Stats on it
  mu,            \* ep.mu: 0 when free, else the goroutine holding it
  stats,         \* ep.QueryCount, ep.Time, ep.RowCount, ep.ErrorCount
  pc,            \* where each goroutine is in its call
  tmp,           \* the value a goroutine has read and not yet written back
  args,          \* the arguments of each AddStats call
  snapshot,      \* what Stats() returned
  \* one client connection and the writeResultset call made on it
  conn,          \* the packets written, the flushes, the error returned
  call,          \* the arguments of the call
  build,         \* the buildResultset call made on it and what it returned
  \* the registry and the plan cache as a reload and the workers share them
  registry,      \* si.tables: table name -> the TableInfo registered
  planRefs,      \* si.queries: sql -> the plan's table and TableInfo
  nextInfo,      \* number of the next TableInfo constructed
  loader,        \* where the goroutine reloading and dropping tables is
  worker,        \* where each worker is between lookup and insertion
  \* the metadata connection pool and the calls using it
  dbPool,        \* connections checked out; whether the process has exited
  metaOp         \* the Exec or CreateOrUpdateTable call of each goroutine

schemaVars == <<constructed, closed, fatal, tables, overrides, queries,
                capacity, poolClosed, nextCache, last>>

statsVars == <<mu, stats, pc, tmp, args, snapshot>>

connVars == <<conn, call, build>>

raceVars == <<registry, planRefs, nextInfo, loader, worker>>

poolVars == <<dbPool, metaOp>>

vars == <<schemaVars, statsVars, connVars, raceVars, poolVars>>

(***************************************************************************)
(* TableInfo                                                               *)
(***************************************************************************)
EmptyTables == [n \in {} |-> 0]

TableInfo(ct, c, pk) == [CacheType |-> ct, Cache |-> c, PK |-> pk]

\* the registry with tables[name] = ti
PutTable(t, name, ti) ==
  [n \in DOMAIN t \cup {name} |-> IF n = name THEN ti ELSE t[n]]

\* delete(si.tables, tableName)
DeleteTable(t, name) == [n \in DOMAIN t \ {name} |-> t[n]]

(***************************************************************************)
(* The LRU plan cache (cache.LRUCache; every ExecPlan has Size() = 1).     *)
(***************************************************************************)
RECURSIVE Without(_, _)
Without(s, k) ==
  IF s = <<>> THEN <<>>
  ELSE IF Head(s) = k THEN Without(Tail(s), k)
  ELSE <<Head(s)>> \o Without(Tail(s), k)

Keys(s) == {s[i] : i \in 1..Len(s)}

\* evict from the least recently used end until the size fits
CheckCapacity(s, cap) == IF Len(s) > cap THEN SubSeq(s, 1, cap) ELSE s

LRUSet(s, k, cap) == CheckCapacity(<<k>> \o Without(s, k), cap)

LRUGet(s, k) == IF k \in Keys(s) THEN <<k>> \o Without(s, k) ELSE s

(***************************************************************************)
(* Override resolution.  A registry state is a record                      *)
(* [tables, queries, nextCache]; the operators below return the state the  *)
(* code leaves behind.                                                     *)
(***************************************************************************)
St(t, q, nc) == [tables |-> t, queries |-> q, nextCache |-> nc]

\* table.SetPK(override.PKColumns): fails on a column the table lacks and
\* then leaves the entry as it was
SetPKFails(ov) == ov.PKColumns = "bad"

SetPK(ti, ov) == IF SetPKFails(ov) THEN ti ELSE [ti EXCEPT !.PK = "override"]

\* case "RW": the entry gets a newly constructed cache of its own
OverrideRW(st, name, table) ==
  St(PutTable(st.tables, name,
              [table EXCEPT !.CacheType = CACHE_RW, !.Cache = st.nextCache + 1]),
     st.queries, st.nextCache + 1)

\* case "W": the cache type is set first, then the target is looked up
OverrideW(st, name, table, desc) ==
  LET marked == [table EXCEPT !.CacheType = CACHE_W]
      aliased ==
        IF Len(desc.Table) = 0 THEN marked
        ELSE IF desc.Table \notin DOMAIN st.tables THEN marked
        ELSE IF st.tables[desc.Table].Cache = nilCache THEN marked
        ELSE [marked EXCEPT !.Cache = st.tables[desc.Table].Cache]
  IN  St(PutTable(st.tables, name, aliased), st.queries, st.nextCache)

\* the switch on override.Cache.Type
OverrideCache(st, name, table, desc) ==
  CASE desc.Type = "RW" -> OverrideRW(st, name, table)
    [] desc.Type = "W"  -> OverrideW(st, name, table, desc)
    [] OTHER            -> St(PutTable(st.tables, name, table),
                              st.queries, st.nextCache)

\* one iteration of the loop, for a table that is registered
\* OverrideFound without the cachePool.IsClosed() test
OverrideFound_IgnoresPool(st, ov, pclosed) ==
  LET table == st.tables[ov.Name]
      withPK == IF ov.PKColumns # "nil" THEN SetPK(table, ov) ELSE table
      kept == St(PutTable(st.tables, ov.Name, withPK), st.queries, st.nextCache)
  IN  IF ov.PKColumns # "nil" /\ SetPKFails(ov) THEN st
      ELSE IF ov.Cache = <<>> THEN kept
      ELSE OverrideCache(kept, ov.Name, withPK, ov.Cache[1])

OverrideFound(st, ov, pclosed) ==
  LET table == st.tables[ov.Name]
      withPK == IF ov.PKColumns # "nil" THEN SetPK(table, ov) ELSE table
      kept == St(PutTable(st.tables, ov.Name, withPK), st.queries, st.nextCache)
  IN  IF ov.PKColumns # "nil" /\ SetPKFails(ov) THEN st
      ELSE IF pclosed \/ ov.Cache = <<>> THEN kept
      ELSE OverrideCache(kept, ov.Name, withPK, ov.Cache[1])

\* ApplyOverride registering an entry for a table it does not find
ApplyOverride_Creating(st, ov, pclosed) ==
  IF ov.Name \notin DOMAIN st.tables
  THEN OverrideFound(St(PutTable(st.tables, ov.Name,
                                 TableInfo(CACHE_NONE, nilCache, "schema")),
                        st.queries, st.nextCache), ov, pclosed)
  ELSE OverrideFound(st, ov, pclosed)

\* one iteration of the loop
ApplyOverride(st, ov, pclosed) ==
  IF ov.Name \notin DOMAIN st.tables THEN st
  ELSE OverrideFound(st, ov, pclosed)

\* si.override(): the rules in list order
RECURSIVE OverrideFrom(_, _, _, _)
OverrideFrom(st, ovs, pclosed, i) ==
  IF i > Len(ovs) THEN st
  ELSE OverrideFrom(ApplyOverride(st, ovs[i], pclosed), ovs, pclosed, i + 1)

override(st, ovs, pclosed) == OverrideFrom(st, ovs, pclosed, 1)

(***************************************************************************)
(* CreateOrUpdateTable.  The outcome of the metadata query and of          *)
(* NewTableInfo is an input:                                               *)
(*   "popfail", "queryfail"  log.Fatal                                     *)
(*   "absent"   no metadata row                                            *)
(*   "badtime"  create_time does not build                                 *)
(*   "err"      NewTableInfo fails                                         *)
(*   "none"     a TableInfo without cache                                  *)
(*   "rw"       a TableInfo with a cache of its own                        *)
(***************************************************************************)
FatalOutcomes == {"popfail", "queryfail"}
SkipOutcomes == {"absent", "badtime", "err"}
LoadedOutcomes == {"none", "rw"}
LoadOutcomes == FatalOutcomes \cup SkipOutcomes \cup LoadedOutcomes

\* NewTableInfo(conn, tableName, tableType, createTime, comment, cachePool)
NewTableInfo(outcome, nc) ==
  IF outcome = "rw" THEN TableInfo(CACHE_RW, nc + 1, "schema")
  ELSE TableInfo(CACHE_NONE, nilCache, "schema")

\* ClearIfPresent without the si.queries.Clear() of the overwrite
ClearIfPresent_Keep(st, name) == st.queries

\* an entry that exists is overwritten and the query cache is cleared
ClearIfPresent(st, name) ==
  IF name \in DOMAIN st.tables THEN <<>> ELSE st.queries

\* CreateOrUpdate forgetting the table the store no longer has
CreateOrUpdate_AbsentForgets(st, name, outcome) ==
  IF outcome = "absent"
  THEN St(DeleteTable(st.tables, name), <<>>, st.nextCache)
  ELSE IF outcome \notin LoadedOutcomes THEN st
  ELSE St(PutTable(st.tables, name, NewTableInfo(outcome, st.nextCache)),
          ClearIfPresent(st, name),
          IF outcome = "rw" THEN st.nextCache + 1 ELSE st.nextCache)

\* what the call leaves behind when it returns: nothing changes unless a
\* TableInfo was built
CreateOrUpdate(st, name, outcome) ==
  IF outcome \notin LoadedOutcomes THEN st
  ELSE St(PutTable(st.tables, name, NewTableInfo(outcome, st.nextCache)),
          ClearIfPresent(st, name),
          IF outcome = "rw" THEN st.nextCache + 1 ELSE st.nextCache)

\* Drop without the si.queries.Clear()
Drop_KeepPlans(st, name) ==
  St(DeleteTable(st.tables, name), st.queries, st.nextCache)

\* DropTable: delete(si.tables, tableName); si.queries.Clear()
Drop(st, name) == St(DeleteTable(st.tables, name), <<>>, st.nextCache)

\* the loop of NewSchemaInfo: CreateOrUpdateTable(or.Name) for each rule
RECURSIVE LoadFrom(_, _, _, _)
LoadFrom(st, ovs, outs, i) ==
  IF i > Len(ovs) THEN st
  ELSE LoadFrom(CreateOrUpdate(st, ovs[i].Name, outs[i]), ovs, outs, i + 1)

Cur == St(tables, queries, nextCache)

\* what the last operation was: its name, argument and outcome, whether the
\* table it names was registered and whether the plan cache held plans
Op(op, name, outcome, size) ==
  [op |-> op, name |-> name, outcome |-> outcome, size |-> size,
   existed |-> name \in DOMAIN tables, hadPlans |-> Len(queries) > 0]

\* the same for an operation that reads neither
Op0(op, name, outcome, size) ==
  [op |-> op, name |-> name, outcome |-> outcome, size |-> size,
   existed |-> FALSE, hadPlans |-> FALSE]

(***************************************************************************)
(* Actions                                                                 *)
(***************************************************************************)
InitSchema ==
  /\ constructed = FALSE
  /\ closed = FALSE
  /\ fatal = FALSE
  /\ tables = EmptyTables
  /\ overrides = <<>>
  /\ queries = <<>>
  /\ capacity = DefaultQueryCacheSize
  /\ poolClosed = TRUE
  /\ nextCache = 0
  /\ last = [op |-> "init", name |-> "", outcome |-> "", size |-> 0,
             existed |-> FALSE, hadPlans |-> FALSE]

Live == constructed /\ ~closed /\ ~fatal

\* NewSchemaInfo: load every table an override names, then resolve.
\* si.cachePool.Open() leaves the pool closed when no row cache is
\* configured, so IsClosed() is an input of the construction.
NewSchemaInfo ==
  /\ ~constructed /\ ~fatal
  /\ \E ovs \in OverrideLists, pclosed \in BOOLEAN :
       \E outs \in [1..Len(ovs) -> SkipOutcomes \cup LoadedOutcomes] :
         LET loaded == LoadFrom(Cur, ovs, outs, 1)
             st == override(loaded, ovs, pclosed)
         IN  /\ pclosed => \A i \in 1..Len(ovs) : outs[i] # "rw"
             /\ st.nextCache <= MaxCaches
             /\ tables' = st.tables
             /\ queries' = st.queries
             /\ nextCache' = st.nextCache
             /\ overrides' = ovs
             /\ poolClosed' = pclosed
             /\ last' = Op0("NewSchemaInfo", "", "", 0)
  /\ constructed' = TRUE
  /\ UNCHANGED <<closed, fatal, capacity>>
  /\ UNCHANGED <<statsVars, connVars, raceVars, poolVars>>

\* mysql.Open fails, or a load inside the constructor ends in log.Fatal
NewSchemaInfoFatal ==
  /\ ~constructed /\ ~fatal
  /\ fatal' = TRUE
  /\ last' = Op0("NewSchemaInfo", "", "fatal", 0)
  /\ UNCHANGED <<constructed, closed, tables, overrides, queries, capacity,
                 poolClosed, nextCache>>
  /\ UNCHANGED <<statsVars, connVars, raceVars, poolVars>>

CreateOrUpdateTable ==
  /\ Live
  /\ \E name \in TableNames, outcome \in LoadOutcomes :
       LET st == CreateOrUpdate(Cur, name, outcome)
       IN  /\ outcome = "rw" => ~poolClosed
           /\ st.nextCache <= MaxCaches
           /\ tables' = st.tables
           /\ queries' = st.queries
           /\ nextCache' = st.nextCache
           /\ fatal' = (outcome \in FatalOutcomes)
           /\ last' = Op("CreateOrUpdateTable", name,
                         IF outcome \in FatalOutcomes THEN "fatal" ELSE outcome, 0)
  /\ UNCHANGED <<constructed, closed, overrides, capacity, poolClosed>>
  /\ UNCHANGED <<statsVars, connVars, raceVars, poolVars>>

Override ==
  /\ Live
  /\ LET st == override(Cur, overrides, poolClosed)
     IN  /\ st.nextCache <= MaxCaches
         /\ tables' = st.tables
         /\ queries' = st.queries
         /\ nextCache' = st.nextCache
  /\ last' = Op0("override", "", "", 0)
  /\ UNCHANGED <<constructed, closed, fatal, overrides, capacity, poolClosed>>
  /\ UNCHANGED <<statsVars, connVars, raceVars, poolVars>>

DropTable ==
  /\ Live
  /\ \E name \in TableNames :
       LET st == Drop(Cur, name)
       IN  /\ tables' = st.tables
           /\ queries' = st.queries
           /\ last' = Op("DropTable", name, "", 0)
  /\ UNCHANGED <<constructed, closed, fatal, overrides, capacity, poolClosed,
                 nextCache>>
  /\ UNCHANGED <<statsVars, connVars, raceVars, poolVars>>

\* the caller's insertion of a compiled plan on a miss
SetQuery ==
  /\ Live
  /\ \E sql \in Sqls :
       /\ queries' = LRUSet(queries, sql, capacity)
       /\ last' = Op0("SetQuery", sql, "", 0)
  /\ UNCHANGED <<constructed, closed, fatal, tables, overrides, capacity,
                 poolClosed, nextCache>>
  /\ UNCHANGED <<statsVars, connVars, raceVars, poolVars>>

\* getQuery: a hit makes the key the most recently used
GetQuery ==
  /\ Live
  /\ \E sql \in Sqls :
       /\ queries' = LRUGet(queries, sql)
       /\ last' = Op0("getQuery", sql, "", 0)
  /\ UNCHANGED <<constructed, closed, fatal, tables, overrides, capacity,
                 poolClosed, nextCache>>
  /\ UNCHANGED <<statsVars, connVars, raceVars, poolVars>>

\* the range check with < for <=
SizeRejected_Negative(size) == size < 0

\* size <= 0 is log.Fatalf; otherwise si.queries.SetCapacity(size)
SizeRejected(size) == size <= 0

SetQueryCacheSize ==
  /\ Live
  /\ \E size \in CacheSizes :
       /\ fatal' = SizeRejected(size)
       /\ capacity' = IF SizeRejected(size) THEN capacity ELSE size
       /\ queries' = IF SizeRejected(size) THEN queries
                     ELSE CheckCapacity(queries, size)
       /\ last' = Op0("SetQueryCacheSize", "",
                      IF SizeRejected(size) THEN "fatal" ELSE "", size)
  /\ UNCHANGED <<constructed, closed, tables, overrides, poolClosed, nextCache>>
  /\ UNCHANGED <<statsVars, connVars, raceVars, poolVars>>

Close ==
  /\ Live
  /\ closed' = TRUE
  /\ tables' = EmptyTables
  /\ overrides' = <<>>
  /\ queries' = <<>>
  /\ poolClosed' = TRUE
  /\ last' = Op0("Close", "", "", 0)
  /\ UNCHANGED <<constructed, fatal, capacity, nextCache>>
  /\ UNCHANGED <<statsVars, connVars, raceVars, poolVars>>

(***************************************************************************)
(* ExecPlan.AddStats and ExecPlan.Stats.  Each of NumCallers goroutines    *)
(* calls AddStats once; one more goroutine calls Stats once.  A += is a    *)
(* read followed by a write; the four counters are stats[1..4].            *)
(***************************************************************************)
Callers == 1..NumCallers
Reader == NumCallers + 1
Goroutines == 1..Reader
Counters == 1..4

\* (queryCount, duration, rowCount, errorCount) of an AddStats call
ArgSet == { <<1, 2, 3, 0>>, <<1, 5, 0, 1>> }

At(l, f) == [at |-> l, f |-> f]

\* a Lock that excludes nobody
CanLock_NoExclusion(m) == TRUE

\* ep.mu.Lock() returns once no goroutine holds the mutex
CanLock(m) == m = 0

\* arguments with a negative duration among them
SignedArgSet == ArgSet \cup { <<1, -2, 1, 0>> }

\* nothing read yet: done is the set of AddStats calls that had returned
\* when Stats() took the mutex, prev the values of the Stats() call before,
\* calls the number of Stats() calls that have returned
NoSnapshot ==
  [afterAll |-> FALSE, done |-> {}, val |-> <<0, 0, 0, 0>>,
   prev |-> <<0, 0, 0, 0>>, calls |-> 0]

InitStatsIdle ==
  /\ mu = 0
  /\ stats = <<0, 0, 0, 0>>
  /\ pc = [g \in Goroutines |-> At("idle", 0)]
  /\ tmp = [g \in Goroutines |-> 0]
  /\ args = [g \in Callers |-> <<0, 0, 0, 0>>]
  /\ snapshot = NoSnapshot

InitStats ==
  /\ mu = 0
  /\ stats = <<0, 0, 0, 0>>
  /\ pc = [g \in Goroutines |-> At("Lock", 0)]
  /\ tmp = [g \in Goroutines |-> 0]
  /\ args \in [Callers -> ArgSet]
  /\ snapshot = NoSnapshot

\* the same with arguments of either sign
InitStatsSigned ==
  /\ mu = 0
  /\ stats = <<0, 0, 0, 0>>
  /\ pc = [g \in Goroutines |-> At("Lock", 0)]
  /\ tmp = [g \in Goroutines |-> 0]
  /\ args \in [Callers -> SignedArgSet]
  /\ snapshot = NoSnapshot

AddStatsLock(p) ==
  /\ pc[p].at = "Lock"
  /\ CanLock(mu)
  /\ mu' = p
  /\ pc' = [pc EXCEPT ![p] = At("load", 1)]
  /\ UNCHANGED <<stats, tmp, args, snapshot>>

\* the read of ep.X in ep.X += x
AddStatsLoad(p) ==
  /\ pc[p].at = "load"
  /\ tmp' = [tmp EXCEPT ![p] = stats[pc[p].f]]
  /\ pc' = [pc EXCEPT ![p] = At("store", pc[p].f)]
  /\ UNCHANGED <<mu, stats, args, snapshot>>

\* the write of ep.X in ep.X += x
AddStatsStore(p) ==
  /\ pc[p].at = "store"
  /\ stats' = [stats EXCEPT ![pc[p].f] = tmp[p] + args[p][pc[p].f]]
  /\ pc' = [pc EXCEPT ![p] = IF pc[p].f < 4 THEN At("load", pc[p].f + 1)
                             ELSE At("Unlock", 0)]
  /\ UNCHANGED <<mu, tmp, args, snapshot>>

AddStatsUnlock(p) ==
  /\ pc[p].at = "Unlock"
  /\ mu' = 0
  /\ pc' = [pc EXCEPT ![p] = At("done", 0)]
  /\ UNCHANGED <<stats, tmp, args, snapshot>>

AddStats ==
  /\ \E p \in Callers :
       \/ AddStatsLock(p)
       \/ AddStatsLoad(p)
       \/ AddStatsStore(p)
       \/ AddStatsUnlock(p)
  /\ UNCHANGED <<schemaVars, connVars, raceVars, poolVars>>

\* Stats(): snapshot.afterAll records whether every AddStats call had
\* returned when the mutex was taken
StatsLock ==
  /\ pc[Reader].at = "Lock"
  /\ CanLock(mu)
  /\ mu' = Reader
  /\ pc' = [pc EXCEPT ![Reader] = At("load", 1)]
  /\ snapshot' = [snapshot EXCEPT
                    !.afterAll = \A p \in Callers : pc[p].at = "done",
                    !.done = {p \in Callers : pc[p].at = "done"}]
  /\ UNCHANGED <<stats, tmp, args>>

StatsRead ==
  /\ pc[Reader].at = "load"
  /\ snapshot' = [snapshot EXCEPT !.val[pc[Reader].f] = stats[pc[Reader].f]]
  /\ pc' = [pc EXCEPT ![Reader] = IF pc[Reader].f < 4
                                  THEN At("load", pc[Reader].f + 1)
                                  ELSE At("Unlock", 0)]
  /\ UNCHANGED <<mu, stats, tmp, args>>

StatsUnlock ==
  /\ pc[Reader].at = "Unlock"
  /\ mu' = 0
  /\ pc' = [pc EXCEPT ![Reader] = At("done", 0)]
  /\ snapshot' = [snapshot EXCEPT !.calls = @ + 1]
  /\ UNCHANGED <<stats, tmp, args>>

Stats ==
  /\ (StatsLock \/ StatsRead \/ StatsUnlock)
  /\ UNCHANGED <<schemaVars, connVars, raceVars, poolVars>>

\* the reader calls Stats() once more, keeping what the last call returned
StatsAgain ==
  /\ pc[Reader].at = "done"
  /\ snapshot.calls < MaxStatsCalls
  /\ pc' = [pc EXCEPT ![Reader] = At("Lock", 0)]
  /\ snapshot' = [snapshot EXCEPT !.prev = snapshot.val]
  /\ UNCHANGED <<mu, stats, tmp, args>>
  /\ UNCHANGED <<schemaVars, connVars, raceVars, poolVars>>

(***************************************************************************)
(* Conn.writeResultset.  A packet is its payload (the bytes after the      *)
(* four header bytes) tagged with what it carries.  The connection fails   *)
(* the failAt-th write of the call (0: none) and, if flushFails, the       *)
(* flush.                                                                  *)
(***************************************************************************)
FieldSet == {1, 2}
RowSet == { <<251>>, <<1, 55>> }
StatusSet == {0, 2}

SeqsUpTo(S, n) == UNION { [1..k -> S] : k \in 0..n }

Resultsets ==
  { [Fields |-> f, RowDatas |-> r] :
      f \in SeqsUpTo(FieldSet, MaxFields), r \in SeqsUpTo(RowSet, MaxRows) }

Packet(kind, body) == [kind |-> kind, body |-> body]

\* mysql.PutLengthEncodedInt
PutLengthEncodedInt(n) ==
  IF n <= 250 THEN <<n>>
  ELSE IF n <= 65535 THEN <<252, n % 256, n \div 256>>
  ELSE IF n <= 16777215 THEN <<253, n % 256, (n \div 256) % 256, n \div 65536>>
  ELSE <<254>> \o [i \in 1..8 |-> (n \div (256 ^ (i - 1))) % 256]

\* Field.Dump: the field descriptor's bytes
Dump(f) == <<f>>

\* the EOF packet: header byte, two warning bytes, the status
EOFPacket(status) == Packet("eof", <<254, 0, 0, status % 256, status \div 256>>)

NewConnTrace ==
  [sent |-> <<>>, writes |-> 0, flushes |-> 0, flushedAt |-> 0,
   err |-> "", affectedRows |-> 0]

\* c.writePacket(data)
writePacket(c, pkt, failAt) ==
  IF c.writes + 1 = failAt
  THEN [c EXCEPT !.writes = @ + 1, !.err = "write"]
  ELSE [c EXCEPT !.writes = @ + 1, !.sent = Append(@, pkt)]

\* c.writeEOF(status)
writeEOF(c, status, failAt) == writePacket(c, EOFPacket(status), failAt)

\* c.flush()
flush(c, flushFails) ==
  [c EXCEPT !.flushes = @ + 1, !.flushedAt = Len(c.sent),
            !.err = IF flushFails THEN "flush" ELSE @]

\* for _, v := range r.Fields: one packet each, return on the first error
RECURSIVE writeFields(_, _, _, _)
writeFields(c, fields, i, failAt) ==
  IF i > Len(fields) \/ c.err # "" THEN c
  ELSE writeFields(writePacket(c, Packet("field", Dump(fields[i])), failAt),
                   fields, i + 1, failAt)

\* writeRows going on to the next row after a failed write
RECURSIVE writeRows_Continue(_, _, _, _)
writeRows_Continue(c, rows, i, failAt) ==
  IF i > Len(rows) THEN c
  ELSE writeRows_Continue(writePacket(c, Packet("row", rows[i]), failAt),
                          rows, i + 1, failAt)

\* for _, v := range r.RowDatas: one packet each, return on the first error
RECURSIVE writeRows(_, _, _, _)
writeRows(c, rows, i, failAt) ==
  IF i > Len(rows) \/ c.err # "" THEN c
  ELSE writeRows(writePacket(c, Packet("row", rows[i]), failAt),
                 rows, i + 1, failAt)

\* the closing EOF packet and, if it was written, the flush
writeClosing(c, status, failAt, flushFails) ==
  LET e == writeEOF(c, status, failAt)
  IN  IF e.err # "" THEN e ELSE flush(e, flushFails)

\* writeBody without the EOF packet between the fields and the rows
writeBody_NoFieldEOF(c, status, r, failAt, flushFails) ==
  LET rows == writeRows(c, r.RowDatas, 1, failAt)
  IN  IF rows.err # "" THEN rows
      ELSE writeClosing(rows, status, failAt, flushFails)

\* the EOF packet after the fields, the rows and the closing
writeBody(c, status, r, failAt, flushFails) ==
  LET e == writeEOF(c, status, failAt)
      rows == IF e.err # "" THEN e ELSE writeRows(e, r.RowDatas, 1, failAt)
  IN  IF rows.err # "" THEN rows
      ELSE writeClosing(rows, status, failAt, flushFails)

writeResultset(c, status, r, failAt, flushFails) ==
  LET c0 == [c EXCEPT !.affectedRows = -1]
      count == writePacket(c0, Packet("count",
                                      PutLengthEncodedInt(Len(r.Fields))),
                           failAt)
      fields == IF count.err # "" THEN count
                ELSE writeFields(count, r.Fields, 1, failAt)
  IN  IF fields.err # "" THEN fields
      ELSE writeBody(fields, status, r, failAt, flushFails)

NoCall ==
  [op |-> "none", status |-> 0, r |-> [Fields |-> <<>>, RowDatas |-> <<>>],
   failAt |-> 0, flushFails |-> FALSE]

InitConn ==
  /\ conn = NewConnTrace
  /\ call = NoCall

\* the call made on the connection; conn holds what it wrote
WriteResultset ==
  /\ call.op = "none"
  /\ \E status \in StatusSet, r \in Resultsets,
        failAt \in 0..(MaxFields + MaxRows + 3), flushFails \in BOOLEAN :
       /\ conn' = writeResultset(NewConnTrace, status, r, failAt, flushFails)
       /\ call' = [op |-> "writeResultset", status |-> status, r |-> r,
                   failAt |-> failAt, flushFails |-> flushFails]
  /\ UNCHANGED <<schemaVars, statsVars, build, raceVars, poolVars>>

(***************************************************************************)
(* Conn.buildResultset.  A value is [t, n]: the kind of its Go type and    *)
(* what it holds.  A *mysql.Field is a record; set = FALSE is the nil      *)
(* pointer.  Row and column indices start at 1 here and at 0 in the code.  *)
(***************************************************************************)
MYSQL_TYPE_DECIMAL == 0
MYSQL_TYPE_LONGLONG == 8
MYSQL_TYPE_VARCHAR == 15
IntegerTypes == {1, 2, 3, 8, 9, 13}
FloatTypes == {4, 5}
NOT_NULL_FLAG == 1
UNSIGNED_FLAG == 32
BINARY_FLAG == 128
NullColumn == <<251>>

Value(t, n) == [t |-> t, n |-> n]
NilValue == Value("nil", 0)

\* a schema.TableColumn
TableColumn(name, sqlType, collation, isUnsigned) ==
  [Name |-> name, SqlType |-> sqlType, Collation |-> collation,
   IsUnsigned |-> isUnsigned]

ColumnLists ==
  LET id == TableColumn("id", MYSQL_TYPE_LONGLONG, "binary", TRUE)
      name == TableColumn("name", MYSQL_TYPE_VARCHAR, "utf8_general_ci", FALSE)
  IN  {<<>>, <<id>>, <<id, name>>}

\* rows of zero to three values: integers, a string, a NULL and a value of
\* a type formatField does not support
RowChoices ==
  LET i == Value("int", 7)
      s == Value("string", 3)
      o == Value("other", 1)
  IN  {<<>>, <<i>>, <<i, s>>, <<NilValue, s>>, <<o, s>>, <<i, s, s>>}

RowLists == SeqsUpTo(RowChoices, MaxRows)

\* mysql.CollationNames
CollationNames(c) ==
  CASE c = "utf8_general_ci" -> 33
    [] c = "binary" -> 63
    [] OTHER -> 0

NilField ==
  [set |-> FALSE, Name |-> "", Type |-> 0, Charset |-> 0, Flag |-> 0,
   IsUnsigned |-> FALSE]

\* &mysql.Field{}
NewField == [NilField EXCEPT !.set = TRUE]

NoError == [kind |-> "none", row |-> 0, got |-> 0, want |-> 0]
RowError(i, got, want) ==
  [kind |-> "row", row |-> i, got |-> got, want |-> want]
UnsupportError == [kind |-> "unsupport", row |-> 0, got |-> 0, want |-> 0]

formatField(field, value) ==
  CASE value.t = "int" ->
         [field |-> [field EXCEPT !.Charset = 63,
                                  !.Type = MYSQL_TYPE_LONGLONG,
                                  !.Flag = BINARY_FLAG + NOT_NULL_FLAG],
          err |-> NoError]
    [] value.t = "uint" ->
         [field |-> [field EXCEPT !.Charset = 63,
                                  !.Type = MYSQL_TYPE_LONGLONG,
                                  !.Flag = BINARY_FLAG + NOT_NULL_FLAG
                                           + UNSIGNED_FLAG],
          err |-> NoError]
    [] value.t = "float" ->
         [field |-> [field EXCEPT !.Charset = 63], err |-> NoError]
    [] value.t = "string" ->
         [field |-> [field EXCEPT !.Charset = 33,
                                  !.Type = MYSQL_TYPE_VARCHAR],
          err |-> NoError]
    [] value.t = "nil" -> [field |-> field, err |-> NoError]
    [] OTHER -> [field |-> field, err |-> UnsupportError]

\* the notation mysql.Raw renders a value in: signed decimal (1), unsigned
\* decimal (2), floating point (3), the bytes as they are (4)
RenderAs(t, isUnsigned) ==
  IF t \in IntegerTypes THEN (IF isUnsigned THEN 2 ELSE 1)
  ELSE IF t \in FloatTypes THEN 3
  ELSE 4

\* mysql.Raw: the bytes, identified by the notation and the value rendered
Raw(t, value, isUnsigned) == <<RenderAs(t, isUnsigned), value.n>>

PutLengthEncodedString(b) == <<Len(b)>> \o b

\* len(vs) > len(r.Fields) only
ColumnCountDiffers_OnlyLonger(vs, fields) == Len(vs) > Len(fields)

\* len(vs) != len(r.Fields)
ColumnCountDiffers(vs, fields) == Len(vs) # Len(fields)

\* the field a value is encoded with and the error of formatField: built
\* from the column for the first row, a fresh &mysql.Field{} for every
\* later row
fieldOf(nameTypes, j, value, i) ==
  IF i = 1
  THEN LET f == formatField([NewField EXCEPT !.Name = nameTypes[j].Name],
                            value)
       IN  IF f.err # NoError THEN f
           ELSE [field |->
                   [f.field EXCEPT
                      !.Type = nameTypes[j].SqlType,
                      !.Charset = CollationNames(nameTypes[j].Collation),
                      !.IsUnsigned = nameTypes[j].IsUnsigned],
                 err |-> NoError]
  ELSE [field |-> NewField, err |-> NoError]

\* the bytes appended to the row for a value
encodeValue(field, value) ==
  IF value = NilValue THEN NullColumn
  ELSE PutLengthEncodedString(Raw(field.Type, value, field.IsUnsigned))

\* for j, value := range vs
RECURSIVE buildColumns(_, _, _, _, _, _)
buildColumns(res, nameTypes, vs, i, j, row) ==
  IF j > Len(vs) THEN [res EXCEPT !.RowDatas = Append(@, row)]
  ELSE LET f == fieldOf(nameTypes, j, vs[j], i)
       IN  IF f.err # NoError THEN [res EXCEPT !.err = f.err]
           ELSE buildColumns(
                  IF i = 1 THEN [res EXCEPT !.Fields[j] = f.field] ELSE res,
                  nameTypes, vs, i, j + 1,
                  row \o encodeValue(f.field, vs[j]))

\* for i, vs := range values
RECURSIVE buildRows(_, _, _, _)
buildRows(res, nameTypes, values, i) ==
  IF i > Len(values) THEN res
  ELSE IF ColumnCountDiffers(values[i], res.Fields)
  THEN [res EXCEPT
          !.err = RowError(i - 1, Len(values[i]), Len(res.Fields))]
  ELSE LET r == buildColumns(res, nameTypes, values[i], i, 1, <<>>)
       IN  IF r.err # NoError THEN r
           ELSE buildRows(r, nameTypes, values, i + 1)

\* what the call returns: the resultset, or nil and the error
buildResultset(nameTypes, values) ==
  LET r == buildRows([Fields |-> [j \in 1..Len(nameTypes) |-> NilField],
                      RowDatas |-> <<>>, err |-> NoError],
                     nameTypes, values, 1)
  IN  IF r.err # NoError
      THEN [nil |-> TRUE, Fields |-> <<>>, RowDatas |-> <<>>, err |-> r.err]
      ELSE [nil |-> FALSE, Fields |-> r.Fields, RowDatas |-> r.RowDatas,
            err |-> NoError]

NoBuild ==
  [op |-> "none", nameTypes |-> <<>>, values |-> <<>>,
   r |-> [nil |-> TRUE, Fields |-> <<>>, RowDatas |-> <<>>, err |-> NoError]]

InitBuild == build = NoBuild

\* the call made on the connection; build holds what it returned
BuildResultset ==
  /\ build.op = "none"
  /\ \E nameTypes \in ColumnLists, values \in RowLists :
       build' = [op |-> "buildResultset", nameTypes |-> nameTypes,
                 values |-> values, r |-> buildResultset(nameTypes, values)]
  /\ UNCHANGED <<schemaVars, statsVars, conn, call, raceVars, poolVars>>

(***************************************************************************)
(* The registry and the plan cache under concurrent use.  No lock guards   *)
(* si.tables or orders a reload against the workers: the statements of     *)
(* CreateOrUpdateTable and DropTable interleave with a worker's lookup,    *)
(* GetTable and plan insertion.  A TableInfo is known by the number of its *)
(* construction (0: no entry); a plan holds the TableInfo it was compiled  *)
(* against.                                                                *)
(***************************************************************************)
Workers == 1..NumWorkers

NoPlan == [name |-> "", info |-> 0]

\* &ExecPlan{TableInfo: info}
Plan(name, info) == [name |-> name, info |-> info]

\* si.queries.Clear()
NoPlans == [q \in Sqls |-> NoPlan]

IdleLoader == [at |-> "idle", name |-> "", info |-> 0]
IdleWorker == [at |-> "idle", sql |-> "", name |-> "", info |-> 0]

InitRace ==
  /\ registry = [n \in TableNames |-> 0]
  /\ planRefs = NoPlans
  /\ nextInfo = 1
  /\ loader = IdleLoader
  /\ worker = [w \in Workers |-> IdleWorker]

\* CreateOrUpdateTable up to the map write: the new TableInfo is built and,
\* if the name is registered, the plan cache is cleared
ReloadClear ==
  /\ loader.at = "idle"
  /\ nextInfo <= MaxInfos
  /\ \E name \in TableNames :
       /\ loader' = [at |-> "built", name |-> name, info |-> nextInfo]
       /\ planRefs' = IF registry[name] # 0 THEN NoPlans ELSE planRefs
  /\ nextInfo' = nextInfo + 1
  /\ UNCHANGED <<registry, worker>>

\* si.tables[tableName] = tableInfo
ReloadPut ==
  /\ loader.at = "built"
  /\ registry' = [registry EXCEPT ![loader.name] = loader.info]
  /\ loader' = IdleLoader
  /\ UNCHANGED <<planRefs, nextInfo, worker>>

\* DropTable: delete(si.tables, tableName)
DropDelete ==
  /\ loader.at = "idle"
  /\ \E name \in TableNames :
       /\ registry[name] # 0
       /\ registry' = [registry EXCEPT ![name] = 0]
       /\ loader' = [at |-> "deleted", name |-> name, info |-> 0]
  /\ UNCHANGED <<planRefs, nextInfo, worker>>

\* DropTable: si.queries.Clear()
DropClear ==
  /\ loader.at = "deleted"
  /\ planRefs' = NoPlans
  /\ loader' = IdleLoader
  /\ UNCHANGED <<registry, nextInfo, worker>>

\* getQuery(sql) finds no plan
WorkerMiss(w) ==
  /\ worker[w].at = "idle"
  /\ \E sql \in Sqls :
       /\ planRefs[sql] = NoPlan
       /\ worker' = [worker EXCEPT ![w] = [IdleWorker EXCEPT !.at = "missed",
                                                            !.sql = sql]]
  /\ UNCHANGED <<registry, planRefs, nextInfo, loader>>

\* GetTable(name): the plan is compiled against the entry found, and no
\* plan is made when there is none
WorkerGetTable(w) ==
  /\ worker[w].at = "missed"
  /\ \E name \in TableNames :
       worker' = [worker EXCEPT ![w] =
                    IF registry[name] = 0 THEN IdleWorker
                    ELSE [@ EXCEPT !.at = "compiled", !.name = name,
                                   !.info = registry[name]]]
  /\ UNCHANGED <<registry, planRefs, nextInfo, loader>>

\* the compiled plan is put into si.queries
WorkerInsert(w) ==
  /\ worker[w].at = "compiled"
  /\ planRefs' = [planRefs EXCEPT ![worker[w].sql] =
                    Plan(worker[w].name, worker[w].info)]
  /\ worker' = [worker EXCEPT ![w] = IdleWorker]
  /\ UNCHANGED <<registry, nextInfo, loader>>

Reload ==
  /\ (ReloadClear \/ ReloadPut \/ DropDelete \/ DropClear)
  /\ UNCHANGED <<schemaVars, statsVars, connVars, poolVars>>

Work ==
  /\ \E w \in Workers : WorkerMiss(w) \/ WorkerGetTable(w) \/ WorkerInsert(w)
  /\ UNCHANGED <<schemaVars, statsVars, connVars, poolVars>>

(***************************************************************************)
(* The metadata connection pool under Exec and CreateOrUpdateTable.  Each  *)
(* goroutine makes calls one after the other; a call pops a connection,    *)
(* runs its query and returns through the deferred PushConn, or ends the   *)
(* process in log.Fatal.  dbPool.out counts the connections checked out.   *)
(***************************************************************************)
ExecOutcomes == {"popfail", "ok", "queryerr"}

MetaCalls ==
  {[op |-> "Exec", outcome |-> o] : o \in ExecOutcomes}
    \cup {[op |-> "CreateOrUpdateTable", outcome |-> o] : o \in LoadOutcomes}

IdleOp == [op |-> "", outcome |-> "", at |-> "idle", pops |-> 0, pushes |-> 0]

InitPool ==
  /\ dbPool = [out |-> 0, exited |-> FALSE]
  /\ metaOp = [g \in Callers |-> IdleOp]

\* PopConn fails: log.Fatal
PopFails(c) == c.outcome = "popfail"

\* the query fails in CreateOrUpdateTable: log.Fatalf; Exec returns the error
QueryFatal(c) == c.op = "CreateOrUpdateTable" /\ c.outcome = "queryfail"

\* the deferred PushConn registered on success paths only
Deferred_OnlyOnSuccess(c) == c.outcome \in {"ok", "none", "rw"}

\* defer si.connPool.PushConn(conn, err): registered right after PopConn,
\* it runs on every return
Deferred(c) == TRUE

MetaCall(g) ==
  /\ metaOp[g].at \in {"idle", "returned"}
  /\ \E c \in MetaCalls :
       metaOp' = [metaOp EXCEPT ![g] =
                    [op |-> c.op, outcome |-> c.outcome, at |-> "pop",
                     pops |-> 0, pushes |-> 0]]
  /\ UNCHANGED dbPool

PopConn(g) ==
  /\ metaOp[g].at = "pop"
  /\ IF PopFails(metaOp[g])
     THEN /\ dbPool' = [dbPool EXCEPT !.exited = TRUE]
          /\ metaOp' = [metaOp EXCEPT ![g].at = "exit"]
     ELSE /\ dbPool' = [dbPool EXCEPT !.out = @ + 1]
          /\ metaOp' = [metaOp EXCEPT ![g].at = "query", ![g].pops = @ + 1]

\* conn.Execute and what follows it up to the return statement
RunQuery(g) ==
  /\ metaOp[g].at = "query"
  /\ IF QueryFatal(metaOp[g])
     THEN /\ dbPool' = [dbPool EXCEPT !.exited = TRUE]
          /\ metaOp' = [metaOp EXCEPT ![g].at = "exit"]
     ELSE /\ metaOp' = [metaOp EXCEPT ![g].at =
                          IF Deferred(metaOp[g]) THEN "defer" ELSE "returned"]
          /\ UNCHANGED dbPool

\* the deferred PushConn runs and the call returns
PushConn(g) ==
  /\ metaOp[g].at = "defer"
  /\ dbPool' = [dbPool EXCEPT !.out = @ - 1]
  /\ metaOp' = [metaOp EXCEPT ![g].at = "returned", ![g].pushes = @ + 1]

MetaOps ==
  /\ ~dbPool.exited
  /\ \E g \in Callers : MetaCall(g) \/ PopConn(g) \/ RunQuery(g) \/ PushConn(g)
  /\ UNCHANGED <<schemaVars, statsVars, connVars, raceVars>>

(***************************************************************************)
(* Specifications                                                          *)
(***************************************************************************)
\* the schema registry with its plan cache
Init == InitSchema /\ InitStatsIdle /\ InitConn /\ InitBuild /\ InitRace /\ InitPool

Next ==
  \/ NewSchemaInfo
  \/ NewSchemaInfoFatal
  \/ CreateOrUpdateTable
  \/ Override
  \/ DropTable
  \/ SetQuery
  \/ Close

Spec == Init /\ [][Next]_vars

\* the plan cache: lookups, insertions and resizing
NextQueries ==
  \/ NewSchemaInfo
  \/ SetQuery
  \/ GetQuery
  \/ SetQueryCacheSize
  \/ Close

SpecQueries == Init /\ [][NextQueries]_vars

\* one ExecPlan under concurrent AddStats and Stats
InitExecPlan == InitSchema /\ InitStats /\ InitConn /\ InitBuild /\ InitRace /\ InitPool

NextExecPlan == AddStats \/ Stats

SpecStats == InitExecPlan /\ [][NextExecPlan]_vars

\* the same ExecPlan read by successive Stats() calls, the AddStats
\* arguments being of either sign
InitExecPlanSigned ==
  InitSchema /\ InitStatsSigned /\ InitConn /\ InitBuild /\ InitRace /\ InitPool

NextExecPlanSeq == AddStats \/ Stats \/ StatsAgain

SpecStatsSeq == InitExecPlanSigned /\ [][NextExecPlanSeq]_vars

\* one writeResultset call on a connection
NextConn == WriteResultset

SpecConn == Init /\ [][NextConn]_vars

\* one buildResultset call on a connection
NextBuild == BuildResultset

SpecBuild == Init /\ [][NextBuild]_vars

\* a reloading goroutine and the workers on one registry and plan cache
NextRace == Reload \/ Work

SpecRace == Init /\ [][NextRace]_vars

\* Exec and CreateOrUpdateTable calls on the metadata connection pool
NextPool == MetaOps

SpecPool == Init /\ [][NextPool]_vars

(***************************************************************************)
(* Properties                                                              *)
(***************************************************************************)
Loaded == last.op = "CreateOrUpdateTable" /\ last.outcome \in LoadedOutcomes

RemoveAt(s, i) == SubSeq(s, 1, i - 1) \o SubSeq(s, i + 1, Len(s))

IsW(ov) == ov.Cache # <<>> /\ ov.Cache[1].Type = "W"

IsRW(ov) == ov.Cache # <<>> /\ ov.Cache[1].Type = "RW"

\* C1: right after CreateOrUpdateTable has loaded a table that was already
\* registered, and so replaced its entry, the plan cache holds no entry,
\* whatever it held before.
C1_ReplaceClearsPlans ==
  (Loaded /\ last.existed) => Len(queries) = 0

\* C1: a registered table was reloaded while the plan cache held plans
C1_Witness ==
  /\ Loaded /\ last.existed /\ last.hadPlans
  /\ last.name \in DOMAIN tables
  /\ queries = <<>>

\* C2: a "W" rule whose target table is registered with CacheType NONE
\* leaves the CacheType of the source table NONE.
C2_WriteOnlyKeepsNone ==
  \A i \in 1..Len(overrides) :
    LET ov == overrides[i]
    IN  ( /\ Live /\ ~poolClosed
          /\ IsW(ov) /\ ~SetPKFails(ov)
          /\ ov.Name \in DOMAIN tables
          /\ tables[ov.Name].CacheType = CACHE_NONE
          /\ ov.Cache[1].Table \in DOMAIN tables
          /\ tables[ov.Cache[1].Table].CacheType = CACHE_NONE )
        => ApplyOverride(Cur, ov, poolClosed).tables[ov.Name].CacheType
             = CACHE_NONE

\* C3: in every reachable state each entry with CacheType W has a "W" rule
\* naming a registered target, and holds exactly the non-nil cache that the
\* target's entry holds now; the registry has one entry per table name.
C3_AliasSharesTargetCache ==
  \A n \in DOMAIN tables :
    tables[n].CacheType = CACHE_W =>
      \E i \in 1..Len(overrides) :
        /\ overrides[i].Name = n
        /\ IsW(overrides[i])
        /\ overrides[i].Cache[1].Table \in DOMAIN tables
        /\ tables[n].Cache # nilCache
        /\ tables[n].Cache = tables[overrides[i].Cache[1].Table].Cache

\* C4: right after CreateOrUpdateTable has loaded a table that has an "RW"
\* rule, with the row-cache pool open, the entry has the cache type and a
\* cache as the rule prescribes.
C4_OverrideAppliedOnReload ==
  (Loaded /\ ~poolClosed) =>
    \A i \in 1..Len(overrides) :
      ( /\ overrides[i].Name = last.name
        /\ IsRW(overrides[i])
        /\ ~SetPKFails(overrides[i]) )
      => /\ tables[last.name].CacheType = CACHE_RW
         /\ tables[last.name].Cache # nilCache

\* C5: running override() twice in a row leaves the registry that running
\* it once leaves: the same CacheType and the same cache for every table.
C5_OverrideIdempotent ==
  Live =>
    LET once == override(Cur, overrides, poolClosed)
        twice == override(once, overrides, poolClosed)
    IN  twice.tables = once.tables

\* C6: a rule naming a table that is not registered is a no-op of override
\* resolution: the iteration for it changes nothing, the whole resolution
\* ends as it does without that rule, no entry is added for the name and no
\* row cache is constructed for it.
C6_MissingTableRuleIsNoOp ==
  \A i \in 1..Len(overrides) :
    overrides[i].Name \notin DOMAIN tables =>
      LET all == override(Cur, overrides, poolClosed)
          rest == override(Cur, RemoveAt(overrides, i), poolClosed)
      IN  /\ ApplyOverride(Cur, overrides[i], poolClosed) = Cur
          /\ all = rest
          /\ overrides[i].Name \notin DOMAIN all.tables

\* C6: override() has run with one rule naming an unregistered table and
\* another rule that gave its table a cache
C6_Witness ==
  /\ last.op = "override"
  /\ \E i, j \in 1..Len(overrides) :
       /\ overrides[i].Name \notin DOMAIN tables
       /\ overrides[j].Name \in DOMAIN tables
       /\ tables[overrides[j].Name].Cache # nilCache

\* C7: a DropTable(name) step ends with no entry for name and an empty plan
\* cache, and with the entry of every other table as it was.
C7_DropTableRemovesAndClears ==
  [][ last'.op = "DropTable" =>
        /\ last'.name \notin DOMAIN tables'
        /\ Len(queries') = 0
        /\ \A m \in TableNames \ {last'.name} :
             /\ m \in DOMAIN tables' <=> m \in DOMAIN tables
             /\ m \in DOMAIN tables => tables'[m] = tables[m] ]_vars

\* C7: a registered table was dropped while the plan cache held plans and
\* another table was registered
C7_Witness ==
  /\ last.op = "DropTable" /\ last.existed /\ last.hadPlans
  /\ last.name \notin DOMAIN tables
  /\ tables # EmptyTables
  /\ queries = <<>>

RECURSIVE SumArgs(_, _)
SumArgs(f, n) == IF n = 0 THEN 0 ELSE args[n][f] + SumArgs(f, n - 1)

\* C8: a Stats() call that takes the mutex after every AddStats call has
\* returned gives the four sums of the calls' arguments, whatever the
\* interleaving of the callers was.
C8_StatsAreSums ==
  (pc[Reader].at = "done" /\ snapshot.afterAll) =>
    snapshot.val = [f \in Counters |-> SumArgs(f, NumCallers)]

\* C8: Stats() has returned after all the AddStats calls, which differed in
\* their arguments
C8_Witness ==
  /\ pc[Reader].at = "done" /\ snapshot.afterAll
  /\ \E p, q \in Callers : args[p] # args[q]
  /\ snapshot.val[1] = NumCallers

\* C9: a SetQueryCacheSize(size) step with size <= 0 ends in the fatal
\* outcome with the capacity it started with; with size > 0 it ends with
\* capacity = size.
C9_CacheSizeChecked ==
  [][ last'.op = "SetQueryCacheSize" =>
        IF last'.size <= 0
        THEN fatal' /\ last'.outcome = "fatal" /\ capacity' = capacity
        ELSE ~fatal' /\ capacity' = last'.size ]_vars

\* C9: a call with size <= 0 was rejected after an earlier call had set the
\* capacity
C9_Witness ==
  /\ last.op = "SetQueryCacheSize" /\ last.size <= 0
  /\ fatal
  /\ capacity # DefaultQueryCacheSize

\* the packets of a resultset in the order of the protocol
ExpectedPackets(status, r) ==
  <<Packet("count", <<Len(r.Fields)>>)>>
  \o [i \in 1..Len(r.Fields) |-> Packet("field", <<r.Fields[i]>>)]
  \o <<EOFPacket(status)>>
  \o [i \in 1..Len(r.RowDatas) |-> Packet("row", r.RowDatas[i])]
  \o <<EOFPacket(status)>>

NoWriteFails ==
  call.failAt = 0 \/ call.failAt > Len(call.r.Fields) + Len(call.r.RowDatas) + 3

\* C10: when no packet write fails, writeResultset writes the column count
\* packet, the M field packets in order, an EOF packet with the status, the
\* N row packets in order and a closing EOF packet with the status, 1 + M +
\* 1 + N + 1 packets in all, and flushes once, after the last packet.
C10_PacketSequence ==
  (call.op = "writeResultset" /\ NoWriteFails) =>
    /\ conn.sent = ExpectedPackets(call.status, call.r)
    /\ Len(conn.sent) = 1 + Len(call.r.Fields) + 1 + Len(call.r.RowDatas) + 1
    /\ conn.flushes = 1
    /\ conn.flushedAt = Len(conn.sent)

\* C10: a resultset with two fields and two different rows was written
C10_Witness ==
  /\ call.op = "writeResultset" /\ NoWriteFails
  /\ Len(call.r.Fields) = 2 /\ Len(call.r.RowDatas) = 2
  /\ call.r.RowDatas[1] # call.r.RowDatas[2]
  /\ Len(conn.sent) = 7
  /\ conn.flushes = 1
  /\ conn.err = ""

\* C11: when the k-th packet write of writeResultset fails, the call
\* returns the write error, the packets written are exactly the first k - 1
\* packets of the full sequence, no write is attempted after the failed one
\* and nothing is flushed.
C11_FirstFailureAborts ==
  (call.op = "writeResultset" /\ ~NoWriteFails) =>
    /\ conn.err = "write"
    /\ conn.sent = SubSeq(ExpectedPackets(call.status, call.r),
                          1, call.failAt - 1)
    /\ conn.writes = call.failAt
    /\ conn.flushes = 0

\* C11: the write of the first of two row packets failed, after the count,
\* two field packets and the EOF packet had been written
C11_Witness ==
  /\ call.op = "writeResultset"
  /\ Len(call.r.Fields) = 2 /\ Len(call.r.RowDatas) = 2
  /\ call.failAt = 5
  /\ Len(conn.sent) = 4
  /\ conn.err = "write"
  /\ conn.flushes = 0

Built == build.op = "buildResultset"

\* the rows (counted from 1) whose column count differs from the metadata
MismatchedRows ==
  {i \in 1..Len(build.values) :
     Len(build.values[i]) # Len(build.nameTypes)}

FirstMismatch ==
  CHOOSE i \in MismatchedRows : \A k \in MismatchedRows : i <= k

\* the first row holds a value of a type formatField rejects
FirstRowUnsupported ==
  /\ Len(build.values) > 0
  /\ \E j \in 1..Len(build.values[1]) :
       build.values[1][j].t \notin {"int", "uint", "float", "string", "nil"}

\* C12: buildResultset returns nil for every input with a row whose column
\* count differs from the metadata, and the error names the index of the
\* first such row, its column count and the expected count.
C12_RowErrorAlways ==
  (Built /\ MismatchedRows # {}) =>
    /\ build.r.nil
    /\ build.r.err = RowError(FirstMismatch - 1,
                              Len(build.values[FirstMismatch]),
                              Len(build.nameTypes))

\* C12: buildResultset returns nil for every input with a row whose column
\* count differs from the metadata; the error names the index of the first
\* such row, its column count and the expected count, unless that row is
\* not the first one and the first row holds a value of an unsupported
\* type: then the error is formatField's.
C12_RowErrorUnlessUnsupported ==
  (Built /\ MismatchedRows # {}) =>
    /\ build.r.nil
    /\ build.r.err =
         IF FirstMismatch > 1 /\ FirstRowUnsupported
         THEN UnsupportError
         ELSE RowError(FirstMismatch - 1,
                       Len(build.values[FirstMismatch]),
                       Len(build.nameTypes))

\* C12: a well-formed first row followed by a row one column short
C12_Witness ==
  /\ Built
  /\ Len(build.nameTypes) = 2
  /\ Len(build.values) = 2
  /\ Len(build.values[1]) = 2
  /\ Len(build.values[2]) = 1
  /\ build.r.nil
  /\ build.r.err = RowError(1, 1, 2)

\* C13: every successful buildResultset returns one field descriptor per
\* metadata column, each present and carrying the column's name, schema
\* type, collation charset and signedness, for every number of rows.
C13_FieldsFromMetadata ==
  (Built /\ ~build.r.nil) =>
    /\ Len(build.r.Fields) = Len(build.nameTypes)
    /\ \A j \in 1..Len(build.nameTypes) :
         /\ build.r.Fields[j].set
         /\ build.r.Fields[j].Name = build.nameTypes[j].Name
         /\ build.r.Fields[j].Type = build.nameTypes[j].SqlType
         /\ build.r.Fields[j].Charset =
              CollationNames(build.nameTypes[j].Collation)
         /\ build.r.Fields[j].IsUnsigned = build.nameTypes[j].IsUnsigned

\* the row bytes when every value is encoded with its column's descriptor
RECURSIVE EncodedWith(_, _, _)
EncodedWith(fields, vs, j) ==
  IF j > Len(vs) THEN <<>>
  ELSE encodeValue(fields[j], vs[j]) \o EncodedWith(fields, vs, j + 1)

\* C14: in a successful buildResultset every row, the first or a later
\* one, holds for each column the single byte 0xfb for NULL and otherwise
\* the value encoded with the type and signedness of the column's field
\* descriptor, so equal values in a column have equal bytes in every row.
C14_RowsEncodedByDescriptor ==
  (Built /\ ~build.r.nil) =>
    \A i \in 1..Len(build.values) :
      build.r.RowDatas[i] = EncodedWith(build.r.Fields, build.values[i], 1)

\* the plans of the cache whose TableInfo is no longer the registered one
StalePlans ==
  {q \in Sqls : planRefs[q] # NoPlan
                /\ registry[planRefs[q].name] # planRefs[q].info}

\* C15: under every interleaving of reloads, drops and the workers' plan
\* lookups and insertions, once a reload or drop has finished the plan
\* cache holds no plan whose TableInfo has been replaced in or removed from
\* the registry.
C15_NoStalePlan == loader.at = "idle" => StalePlans = {}

\* the goroutines holding a connection of the pool
Holders == {g \in Callers : metaOp[g].at \in {"query", "defer"}}

\* C20: a call of Exec or CreateOrUpdateTable that has returned, whatever
\* its path, has popped one connection and pushed it back once, and the
\* connections checked out, as long as the process runs, are those of the
\* calls that have not returned yet.
C20_ConnReturnedOnce ==
  /\ \A g \in Callers :
       metaOp[g].at = "returned" =>
         metaOp[g].pops = 1 /\ metaOp[g].pushes = 1
  /\ ~dbPool.exited => dbPool.out = Cardinality(Holders)

\* C20: CreateOrUpdateTable has returned at the create_time error and Exec
\* at the query error, and no connection is checked out
C20_Witness ==
  /\ \E g \in Callers :
       /\ metaOp[g].at = "returned"
       /\ metaOp[g].op = "CreateOrUpdateTable"
       /\ metaOp[g].outcome = "badtime"
       /\ metaOp[g].pushes = 1
  /\ \E g \in Callers :
       /\ metaOp[g].at = "returned"
       /\ metaOp[g].op = "Exec"
       /\ metaOp[g].outcome = "queryerr"
       /\ metaOp[g].pushes = 1
  /\ dbPool.out = 0

\* the sum of argument f over the AddStats calls of the goroutines in S
RECURSIVE SumOver(_, _)
SumOver(f, S) ==
  IF S = {} THEN 0
  ELSE LET p == CHOOSE x \in S : TRUE
       IN  args[p][f] + SumOver(f, S \ {p})

\* C16: whatever the interleaving with AddStats calls, the four values a
\* Stats() call returns are the sums of the arguments of the AddStats calls
\* that had returned when it took the mutex: every one of these calls is
\* counted in all four values and no other call in any.
C16_SnapshotConsistent ==
  pc[Reader].at = "done" =>
    snapshot.val = [f \in Counters |-> SumOver(f, snapshot.done)]

\* C16: Stats() returned the arguments of the one AddStats call before it
\* while another AddStats call is in the middle of its increments
C16_Witness ==
  /\ pc[Reader].at = "done"
  /\ Cardinality(snapshot.done) = 1
  /\ \E p \in Callers \ snapshot.done : pc[p] = At("store", 3)
  /\ \E p \in snapshot.done : snapshot.val = args[p]

\* two Stats() calls have returned one after the other
ReadTwice == pc[Reader].at = "done" /\ snapshot.calls = 2

NonNegativeArgs == \A p \in Callers : \A f \in Counters : args[p][f] >= 0

\* C17: whatever the arguments of the AddStats calls, each of the four
\* values returned by a later Stats() is at least the value returned by an
\* earlier Stats().
C17_CountersNeverDecrease ==
  ReadTwice => \A f \in Counters : snapshot.val[f] >= snapshot.prev[f]

\* C17: when no AddStats call has a negative argument, each of the four
\* values returned by a later Stats() is at least the value returned by an
\* earlier Stats().
C17_CountersNeverDecreaseNonNegative ==
  (ReadTwice /\ NonNegativeArgs) =>
    \A f \in Counters : snapshot.val[f] >= snapshot.prev[f]

\* C17: with non-negative arguments an AddStats call came between two
\* Stats() calls and the second returned more than the first
C17_Witness ==
  /\ ReadTwice
  /\ NonNegativeArgs
  /\ snapshot.prev[1] = 1
  /\ snapshot.val[1] = 2
  /\ snapshot.val[2] > snapshot.prev[2]

\* C18: a CreateOrUpdateTable step for a name the store reports as absent
\* returns without failure and leaves the registry and the plan cache as
\* they were: no entry added, removed or replaced and no plan dropped.
C18_AbsentTableIsNoOp ==
  [][(last'.op = "CreateOrUpdateTable" /\ last'.outcome = "absent") =>
       /\ tables' = tables
       /\ queries' = queries
       /\ nextCache' = nextCache
       /\ fatal' = fatal]_vars

\* C18: CreateOrUpdateTable found no metadata row for a registered table
\* while plans were cached; the entry and the plans are still there
C18_Witness ==
  /\ last.op = "CreateOrUpdateTable"
  /\ last.outcome = "absent"
  /\ last.existed /\ last.hadPlans
  /\ last.name \in DOMAIN tables
  /\ queries # <<>>
  /\ ~fatal

\* C19: with the row-cache pool closed, override() constructs no cache and
\* changes no entry's CacheType or Cache, so that every table stays
\* uncached; it adds and removes no entry, and the explicit PK columns of a
\* rule are still applied to its table.
C19_ClosedPoolLeavesUncached ==
  (Live /\ poolClosed) =>
    LET st == override(Cur, overrides, poolClosed)
    IN  /\ DOMAIN st.tables = DOMAIN tables
        /\ st.nextCache = nextCache
        /\ \A n \in DOMAIN tables :
             /\ st.tables[n].CacheType = tables[n].CacheType
             /\ st.tables[n].Cache = tables[n].Cache
             /\ st.tables[n].CacheType = CACHE_NONE
             /\ st.tables[n].Cache = nilCache
        /\ \A i \in 1..Len(overrides) :
             (overrides[i].Name \in DOMAIN tables
                /\ overrides[i].PKColumns = "good") =>
               st.tables[overrides[i].Name].PK = "override"

\* C19: override() has run with the pool closed over a rule asking for a
\* cache of its own and an alias rule with explicit PK columns, both for
\* registered tables; the PK columns are applied
C19_Witness ==
  /\ last.op = "override"
  /\ Live /\ poolClosed
  /\ \E i, j \in 1..Len(overrides) :
       /\ overrides[i].Name \in DOMAIN tables
       /\ overrides[i].Cache # <<>>
       /\ overrides[i].Cache[1].Type = "RW"
       /\ overrides[j].Name \in DOMAIN tables
       /\ overrides[j].Cache # <<>>
       /\ overrides[j].Cache[1].Type = "W"
       /\ overrides[j].PKColumns = "good"
       /\ tables[overrides[j].Name].PK = "override"

====
